---- MODULE Spec2Model ----
(***************************************************************************)
(* processEntries (sampleFunction): the entry classifier.  One call walks  *)
(* the voice entries once, counting the user tags into a plain object and  *)
(* pushing one idea record for every entry whose lower-cased transcript    *)
(* matches a trigger regular expression.                                   *)
(*                                                                         *)
(* Strings are TLA+ strings; substring search, lower-casing and the        *)
(* case-insensitive flag are computed character by character.  JavaScript  *)
(* values that can be of several types (a tag count, an emotion score, a   *)
(* due date) are records [type, num, str].  Emotion scores are carried in  *)
(* hundredths (0.3 is 30, -0.1 is -10).                                    *)
(***************************************************************************)
EXTENDS Integers, Sequences, FiniteSets, TLC

VARIABLES entries, result, calls, ref

vars == <<entries, result, calls, ref>>

----------------------------------------------------------------------------
(* Bounds of the model *)

MaxEntries == 2

MaxCalls == 3

----------------------------------------------------------------------------
(* JavaScript values *)

Num(n) == [type |-> "number", num |-> n, str |-> ""]

Str(s) == [type |-> "string", num |-> 0, str |-> s]

JSNull == [type |-> "null", num |-> 0, str |-> ""]

JSUndefined == [type |-> "undefined", num |-> 0, str |-> ""]

JSNaN == [type |-> "nan", num |-> 0, str |-> ""]

\* An object reached through the prototype chain; str is what ToPrimitive
\* (Function.prototype.toString / Object.prototype.toString) gives for it.
Obj(s) == [type |-> "object", num |-> 0, str |-> s]

----------------------------------------------------------------------------
(* Strings *)

UpperLetters == "ABCDEFGHIJKLMNOPQRSTUVWXYZ"

LowerLetters == "abcdefghijklmnopqrstuvwxyz"

CharAt(s, i) == SubSeq(s, i, i)

LowerChar(c) ==
  IF \E i \in 1..Len(UpperLetters) : CharAt(UpperLetters, i) = c
  THEN CharAt(LowerLetters, CHOOSE i \in 1..Len(UpperLetters) : CharAt(UpperLetters, i) = c)
  ELSE c

UpperChar(c) ==
  IF \E i \in 1..Len(LowerLetters) : CharAt(LowerLetters, i) = c
  THEN CharAt(UpperLetters, CHOOSE i \in 1..Len(LowerLetters) : CharAt(LowerLetters, i) = c)
  ELSE c

RECURSIVE toLowerCase(_)
toLowerCase(s) ==
  IF s = "" THEN ""
  ELSE LowerChar(CharAt(s, 1)) \o toLowerCase(SubSeq(s, 2, Len(s)))

\* Canonicalize of a case-insensitive pattern match: each character is
\* compared by its upper-case form.
RECURSIVE Canonicalize(_)
Canonicalize(s) ==
  IF s = "" THEN ""
  ELSE UpperChar(CharAt(s, 1)) \o Canonicalize(SubSeq(s, 2, Len(s)))

includes(s, k) ==
  \E i \in 1..(Len(s) - Len(k) + 1) : SubSeq(s, i, i + Len(k) - 1) = k

\* re.test(text) for a pattern that is an alternation of literals with the
\* i flag and no g or y flag: it searches from the start and keeps no
\* lastIndex.
RegExpTestI(alternatives, text) ==
  LET t == Canonicalize(text)
  IN  \E k \in alternatives : includes(t, Canonicalize(k))

\* Number to string in a template literal, for a non-negative integer.
DigitChars == "0123456789"

RECURSIVE NumberToString(_)
NumberToString(n) ==
  IF n < 10 THEN CharAt(DigitChars, n + 1)
  ELSE NumberToString(n \div 10) \o CharAt(DigitChars, (n % 10) + 1)

----------------------------------------------------------------------------
(* The tag frequency object: own properties over Object.prototype *)

EmptyObject == [k \in {} |-> JSUndefined]

\* Properties every plain object inherits, with the value's string form.
ObjectPrototype ==
  [ constructor |-> Obj("function Object() { [native code] }"),
    toString    |-> Obj("function toString() { [native code] }"),
    valueOf     |-> Obj("function valueOf() { [native code] }"),
    __proto__   |-> Obj("[object Object]") ]

\* obj[key]
Get(obj, key) ==
  IF key \in DOMAIN obj THEN obj[key]
  ELSE IF key \in DOMAIN ObjectPrototype THEN ObjectPrototype[key]
  ELSE JSUndefined

Falsy(v) ==
  \/ v.type \in {"undefined", "null", "nan"}
  \/ v.type = "number" /\ v.num = 0
  \/ v.type = "string" /\ v.str = ""

\* v || 0
OrZero(v) == IF Falsy(v) THEN Num(0) ELSE v

\* v + 1: numeric addition for a number, string concatenation once the
\* left operand's primitive is a string.
PlusOne(v) ==
  IF v.type = "number" THEN Num(v.num + 1)
  ELSE Str(v.str \o "1")

\* obj[key] = v. __proto__ is an accessor: its setter ignores a value that
\* is neither an object nor null, and no own property is created.
Put(obj, key, v) ==
  IF key = "__proto__" THEN obj
  ELSE [k \in (DOMAIN obj) \cup {key} |-> IF k = key THEN v ELSE obj[k]]

RECURSIVE countTags(_, _)
countTags(tf, tags) ==
  IF tags = <<>> THEN tf
  ELSE countTags(Put(tf, Head(tags), PlusOne(OrZero(Get(tf, Head(tags))))),
                 Tail(tags))

----------------------------------------------------------------------------
(* Idea detection and the attributes of an idea *)

IdeaVerbs == {"build", "create", "start", "try", "make", "develop", "design", "launch"}

IdeaPhrases == {"just thought of", "what if", "idea for", "thinking about",
                "occurred to me", "imagine if", "how about"}

FutureIntent == {"going to", "plan to", "want to", "would like to", "intend to"}

hasIdeaVerbs(text) == RegExpTestI(IdeaVerbs, text)

hasIdeaPhrases(text) == RegExpTestI(IdeaPhrases, text)

hasFutureIntent(text) == RegExpTestI(FutureIntent, text)

\* (mutant) the future-intent trigger left out of the condition
isIdea_noFutureIntent(text) == hasIdeaVerbs(text) \/ hasIdeaPhrases(text)

isIdea(text) == hasIdeaVerbs(text) \/ hasIdeaPhrases(text) \/ hasFutureIntent(text)

\* (mutant) the in-progress value spelled with an underscore
status_underscore(text) ==
  IF RegExpTestI({"already started", "in progress", "working on"}, text)
  THEN "in_progress"
  ELSE IF RegExpTestI({"finished", "completed", "done"}, text)
  THEN "completed"
  ELSE "new"

\* (mutant) the completed keywords tested before the in-progress ones
status_completedFirst(text) ==
  IF RegExpTestI({"finished", "completed", "done"}, text)
  THEN "completed"
  ELSE IF RegExpTestI({"already started", "in progress", "working on"}, text)
  THEN "in progress"
  ELSE "new"

status(text) ==
  IF RegExpTestI({"already started", "in progress", "working on"}, text)
  THEN "in progress"
  ELSE IF RegExpTestI({"finished", "completed", "done"}, text)
  THEN "completed"
  ELSE "new"

\* (mutant) the work keywords tested before the learning ones
category_workFirst(text) ==
  IF RegExpTestI({"health", "exercise", "workout", "diet"}, text) THEN "health"
  ELSE IF RegExpTestI({"work", "job", "career", "business"}, text) THEN "work"
  ELSE IF RegExpTestI({"learn", "study", "course", "read"}, text) THEN "learning"
  ELSE IF RegExpTestI({"personal", "life", "relationship"}, text) THEN "personal"
  ELSE "general"

category(text) ==
  IF RegExpTestI({"health", "exercise", "workout", "diet"}, text) THEN "health"
  ELSE IF RegExpTestI({"learn", "study", "course", "read"}, text) THEN "learning"
  ELSE IF RegExpTestI({"work", "job", "career", "business"}, text) THEN "work"
  ELSE IF RegExpTestI({"personal", "life", "relationship"}, text) THEN "personal"
  ELSE "general"

\* (mutant) "next week" tested before "tomorrow"
due_date_nextWeekFirst(text) ==
  IF RegExpTestI({"next week"}, text) THEN Str("next week")
  ELSE IF RegExpTestI({"tomorrow"}, text) THEN Str("tomorrow")
  ELSE IF RegExpTestI({"this weekend"}, text) THEN Str("this weekend")
  ELSE JSNull

due_date(text) ==
  IF RegExpTestI({"tomorrow"}, text) THEN Str("tomorrow")
  ELSE IF RegExpTestI({"next week"}, text) THEN Str("next week")
  ELSE IF RegExpTestI({"this weekend"}, text) THEN Str("this weekend")
  ELSE JSNull

\* (mutant) spontaneous only when no other trigger fired
origin_type_phraseOnly(text) ==
  IF hasIdeaPhrases(text) /\ ~hasIdeaVerbs(text) /\ ~hasFutureIntent(text)
  THEN "spontaneous" ELSE "planned"

origin_type(text) == IF hasIdeaPhrases(text) THEN "spontaneous" ELSE "planned"

PositiveAbove == 30

NegativeBelow == -10

\* (mutant) the thresholds taken inclusively
tone_inclusive(score) ==
  IF score.type # "null"
  THEN IF score.type = "number" /\ score.num >= PositiveAbove THEN "positive"
       ELSE IF score.type = "number" /\ score.num <= NegativeBelow THEN "negative"
       ELSE "neutral"
  ELSE "neutral"

\* Comparing undefined or NaN with a number is false either way.
tone(score) ==
  IF score.type # "null"
  THEN IF score.type = "number" /\ score.num > PositiveAbove THEN "positive"
       ELSE IF score.type = "number" /\ score.num < NegativeBelow THEN "negative"
       ELSE "neutral"
  ELSE "neutral"

\* (mutant) "thinking about" left out of the conceptual keywords
refinement_level_consideringOnly(text) ==
  IF RegExpTestI({"detailed plan", "steps to", "process for"}, text) THEN "detailed"
  ELSE IF RegExpTestI({"considering"}, text) THEN "conceptual"
  ELSE "initial"

refinement_level(text) ==
  IF RegExpTestI({"detailed plan", "steps to", "process for"}, text) THEN "detailed"
  ELSE IF RegExpTestI({"thinking about", "considering"}, text) THEN "conceptual"
  ELSE "initial"

belief_level(text) ==
  IF RegExpTestI({"definitely", "absolutely", "must", "will"}, text) THEN "high"
  ELSE IF RegExpTestI({"maybe", "perhaps", "might", "could"}, text) THEN "low"
  ELSE "medium"

\* The record pushed for an entry that is an idea.
idea(e) ==
  LET text == toLowerCase(e.transcript_user)
  IN  [ task_text        |-> e.transcript_user,
        status           |-> status(text),
        category         |-> category(text),
        due_date         |-> due_date(text),
        origin_type      |-> origin_type(text),
        tone             |-> tone(e.emotion_score_score),
        refinement_level |-> refinement_level(text),
        belief_level     |-> belief_level(text) ]

----------------------------------------------------------------------------
(* Inputs *)

VoiceEntry(transcript, tags, score) ==
  [transcript_user |-> transcript, tags_user |-> tags, emotion_score_score |-> score]

Transcripts ==
  { "",
    "Went for a walk",
    "Finished my diet",
    "I want to build a new app",
    "I just thought of a great solution",
    "I want to learn how to code for my job",
    "Already started to BUILD it",
    "Working on it and done, plan to launch",
    "I finished this task to create something",
    "Start a new workout plan for my health",
    "Build better personal relationships",
    "Next week or tomorrow I will try",
    "Plan to begin next week, not this weekend",
    "Start this this weekend",
    "What if I want to try",
    "Thinking about it",
    "Thinking about a detailed plan",
    "Considering to make a diet for my career",
    "I intend to study business",
    "MAKE LIFE BETTER",
    "My job: design it" }

TagLists ==
  { <<"work", "important">>, <<"personal", "work">>, <<"work", "work">>,
    <<"constructor">>, <<"__proto__", "work">> }

TaggedTranscripts == {"Went for a walk", "I want to build a new app"}

Scores == { Num(30), Num(31), Num(40), Num(0), Num(-10), Num(-11), Num(-20),
            JSUndefined, JSNaN }

ScoredTranscripts == {"I want to build a new app"}

EntryPool ==
  {VoiceEntry(t, <<>>, JSNull) : t \in Transcripts}
    \cup {VoiceEntry(t, g, JSNull) : t \in TaggedTranscripts, g \in TagLists}
    \cup {VoiceEntry(t, <<>>, s) : t \in ScoredTranscripts, s \in Scores}

Range(f) == {f[i] : i \in DOMAIN f}

SeqsUpTo(S, n) == UNION {[1..k -> S] : k \in 0..n}

Inputs == SeqsUpTo(EntryPool, MaxEntries)

\* The inputs of the runs that call several times on changing arguments.
CallPool ==
  { VoiceEntry("Went for a walk", <<"work", "work">>, JSNull),
    VoiceEntry("I want to build a new app", <<"personal", "work">>, Num(40)),
    VoiceEntry("Thinking about it", <<>>, JSNull) }

CallInputs == SeqsUpTo(CallPool, MaxEntries)

----------------------------------------------------------------------------
(* The loop body's decisions for each entry of the pools, computed once *)

classify(e) ==
  LET text == toLowerCase(e.transcript_user)
  IN  [isIdea |-> isIdea(text), idea |-> idea(e)]

classified == [e \in EntryPool \cup CallPool |-> classify(e)]

----------------------------------------------------------------------------
(* processEntries *)

\* (mutant) the tag object kept across calls instead of built per call
newTagFrequencies_shared == result.tagFrequencies

\* The structures a call starts from.
newTagFrequencies == EmptyObject

newIdeas == <<>>

\* One iteration of the loop over the entries, on the entry at index i.
visit(st, i) ==
  LET e    == st.entries[i]
  IN  [ entries        |-> st.entries,
        tagFrequencies |-> countTags(st.tagFrequencies, e.tags_user),
        ideas          |-> IF classified[e].isIdea THEN Append(st.ideas, classified[e].idea)
                           ELSE st.ideas ]

RECURSIVE forEntries(_, _)
forEntries(st, i) ==
  IF i > Len(st.entries) THEN st ELSE forEntries(visit(st, i), i + 1)

\* (mutant) the two counts exchanged
summary_swapped(es, ideas) ==
  "Analysis of " \o NumberToString(Len(ideas)) \o " entries found "
     \o NumberToString(Len(es)) \o " potential ideas"

summary(es, ideas) ==
  "Analysis of " \o NumberToString(Len(es)) \o " entries found "
     \o NumberToString(Len(ideas)) \o " potential ideas"

\* The caller's array as the call leaves it, and the returned object.
processEntries(es) ==
  LET st == forEntries([entries |-> es, tagFrequencies |-> newTagFrequencies,
                        ideas |-> newIdeas], 1)
  IN  [ entries |-> st.entries,
        result  |-> [ summary        |-> summary(st.entries, st.ideas),
                      tagFrequencies |-> st.tagFrequencies,
                      ideas          |-> st.ideas ] ]

----------------------------------------------------------------------------
(* The caller *)

NoResult == [summary |-> "", tagFrequencies |-> EmptyObject, ideas |-> <<>>]

NoRef == [set |-> FALSE, at |-> 0, input |-> <<>>, result |-> NoResult]

Init ==
  /\ entries \in Inputs
  /\ result = NoResult
  /\ calls = 0
  /\ ref = NoRef

InitCalls ==
  /\ entries \in CallInputs
  /\ result = NoResult
  /\ calls = 0
  /\ ref = NoRef

\* result = processEntries(entries); with remember, the caller keeps the
\* argument and the result of this call to compare later calls with.
Call(remember) ==
  /\ calls < MaxCalls
  /\ LET r == processEntries(entries)
     IN  /\ entries' = r.entries
         /\ result' = r.result
         /\ ref' = IF remember /\ ~ref.set
                   THEN [set |-> TRUE, at |-> calls + 1, input |-> entries,
                         result |-> r.result]
                   ELSE ref
  /\ calls' = calls + 1

\* The caller builds another argument.
NewInput(es) ==
  /\ es # entries
  /\ entries' = es
  /\ UNCHANGED <<result, calls, ref>>

Next == \E remember \in BOOLEAN : Call(remember)

NextCalls ==
  \/ \E remember \in BOOLEAN : Call(remember)
  \/ \E es \in CallInputs : NewInput(es)

Spec == Init /\ [][Next]_vars

SpecCalls == InitCalls /\ [][NextCalls]_vars

----------------------------------------------------------------------------
(* What the properties below compare the result with *)

\* The lower-cased transcript contains one of the keywords.
Mentions(t, keywords) == \E k \in keywords : includes(toLowerCase(t), k)

AllTranscripts == {e.transcript_user : e \in EntryPool \cup CallPool}

\* Which triggers fire on a transcript.
Triggers ==
  [t \in AllTranscripts |->
     [ verb   |-> Mentions(t, {"build", "create", "start", "try", "make",
                               "develop", "design", "launch"}),
       phrase |-> Mentions(t, {"just thought of", "what if", "idea for",
                               "thinking about", "occurred to me", "imagine if",
                               "how about"}),
       future |-> Mentions(t, {"going to", "plan to", "want to",
                               "would like to", "intend to"}) ]]

Fires(e) ==
  LET tr == Triggers[e.transcript_user] IN tr.verb \/ tr.phrase \/ tr.future

\* The indices, in order, of the entries on which a trigger fires.
RECURSIVE FiringFrom(_, _)
FiringFrom(es, i) ==
  IF i > Len(es) THEN <<>>
  ELSE IF Fires(es[i]) THEN <<i>> \o FiringFrom(es, i + 1)
  ELSE FiringFrom(es, i + 1)

Sources == FiringFrom(entries, 1)

Returned == calls > 0

\* Every idea stands at the place of its source entry.
Aligned == Len(result.ideas) = Len(Sources)

----------------------------------------------------------------------------
(* C1 *)

\* C1: the idea list is the order-preserving subsequence of the entries on
\* whose lower-cased transcript a trigger (verb, phrase, future intent)
\* fires: one idea per such entry and none for the others, in the entries'
\* order, task_text the transcript verbatim, so never more ideas than
\* entries.
C1_IdeasAreTheFiringEntries ==
  Returned =>
    /\ Len(result.ideas) = Len(Sources)
    /\ \A k \in 1..Len(result.ideas) :
         k <= Len(Sources)
           => result.ideas[k].task_text = entries[Sources[k]].transcript_user
    /\ Len(result.ideas) <= Len(entries)

\* An entry without a trigger followed by one found by future intent alone,
\* whose transcript has upper-case letters.
C1_Witness ==
  /\ Returned
  /\ Len(entries) = 2
  /\ entries[1].transcript_user = "Finished my diet"
  /\ entries[2].transcript_user = "I want to learn how to code for my job"
  /\ Len(result.ideas) = 1
  /\ result.ideas[1].task_text = "I want to learn how to code for my job"

----------------------------------------------------------------------------
(* C2 *)

TagsSeen == UNION {{e.tags_user[j] : j \in DOMAIN e.tags_user} : e \in Range(entries)}

RECURSIVE OccurrencesFrom(_, _, _)
OccurrencesFrom(es, i, tag) ==
  IF i > Len(es) THEN 0
  ELSE Cardinality({j \in DOMAIN es[i].tags_user : es[i].tags_user[j] = tag})
         + OccurrencesFrom(es, i + 1, tag)

\* C2: the keys of the tag frequency map are the distinct tags of the
\* entries, and each tag maps to the number of its occurrences over all
\* entries, for every tag string.
C2_TagCounts ==
  Returned =>
    /\ DOMAIN result.tagFrequencies = TagsSeen
    /\ \A tag \in DOMAIN result.tagFrequencies :
         result.tagFrequencies[tag] = Num(OccurrencesFrom(entries, 1, tag))

----------------------------------------------------------------------------
(* C3 *)

Numerals == <<"0", "1", "2", "3", "4", "5", "6", "7", "8", "9">>

\* C3: the summary is "Analysis of N entries found M potential ideas" with
\* N the number of entries and M the number of ideas returned; on the empty
\* input the tag map and the idea list are empty and the summary has
\* "0 potential ideas".
C3_Summary ==
  Returned =>
    /\ result.summary =
         "Analysis of " \o Numerals[Len(entries) + 1] \o " entries found "
           \o Numerals[Len(result.ideas) + 1] \o " potential ideas"
    /\ entries = <<>> =>
         /\ DOMAIN result.tagFrequencies = {}
         /\ result.ideas = <<>>
         /\ includes(result.summary, "0 potential ideas")

\* Two entries of which one is an idea: the two counts differ.
C3_Witness ==
  /\ Returned
  /\ Len(entries) = 2
  /\ Len(result.ideas) = 1
  /\ result.summary = "Analysis of 2 entries found 1 potential ideas"

----------------------------------------------------------------------------
(* C4 *)

----------------------------------------------------------------------------
(* C5 *)

CategoryByOrder ==
  [t \in AllTranscripts |->
     IF Mentions(t, {"health", "exercise", "workout", "diet"}) THEN "health"
     ELSE IF Mentions(t, {"learn", "study", "course", "read"}) THEN "learning"
     ELSE IF Mentions(t, {"work", "job", "career", "business"}) THEN "work"
     ELSE IF Mentions(t, {"personal", "life", "relationship"}) THEN "personal"
     ELSE "general"]

\* C5: an idea's category is that of the first rule, in the order health,
\* learning, work, personal, with a keyword in the lower-cased transcript,
\* and 'general' when there is none.
C5_CategoryFirstMatch ==
  Returned =>
    \A k \in 1..Len(result.ideas) :
      result.ideas[k].category = CategoryByOrder[result.ideas[k].task_text]

\* A transcript with a learning and a work keyword gets 'learning', and one
\* with a health, a work and no learning keyword gets 'health'.
C5_Witness ==
  /\ Returned
  /\ \E k \in 1..Len(result.ideas) :
       /\ result.ideas[k].task_text = "I want to learn how to code for my job"
       /\ Mentions(result.ideas[k].task_text, {"job"})
       /\ result.ideas[k].category = "learning"
  /\ \E k \in 1..Len(result.ideas) :
       /\ result.ideas[k].task_text = "Considering to make a diet for my career"
       /\ result.ideas[k].category = "health"

----------------------------------------------------------------------------
(* C6 *)

ScoreOf(k) == entries[Sources[k]].emotion_score_score

\* C6: an idea's tone is 'positive' iff the score is a number above 0.3,
\* 'negative' iff it is a number below -0.1, and 'neutral' otherwise
\* (null, absent, exactly 0.3, exactly -0.1, in between).
C6_Tone ==
  Returned =>
    /\ Aligned
    /\ \A k \in 1..Len(result.ideas) :
         k <= Len(Sources) =>
           /\ result.ideas[k].tone = "positive"
                <=> (ScoreOf(k).type = "number" /\ ScoreOf(k).num > 30)
           /\ result.ideas[k].tone = "negative"
                <=> (ScoreOf(k).type = "number" /\ ScoreOf(k).num < -10)
           /\ result.ideas[k].tone = "neutral"
                <=> ~(ScoreOf(k).type = "number"
                        /\ (ScoreOf(k).num > 30 \/ ScoreOf(k).num < -10))

\* The two boundary scores, both neutral.
C6_Witness ==
  /\ Returned
  /\ Len(result.ideas) = 2
  /\ Len(entries) = 2
  /\ entries[1].emotion_score_score = Num(30)
  /\ entries[2].emotion_score_score = Num(-10)
  /\ result.ideas[1].tone = "neutral"
  /\ result.ideas[2].tone = "neutral"

----------------------------------------------------------------------------
(* C7 *)

\* C7: an idea's origin_type is 'spontaneous' iff the phrase trigger fired
\* and 'planned' otherwise, whatever the other two triggers did.
C7_Origin ==
  Returned =>
    \A k \in 1..Len(result.ideas) :
      result.ideas[k].origin_type =
        IF Triggers[result.ideas[k].task_text].phrase
        THEN "spontaneous" ELSE "planned"

\* An idea found by the verb and future-intent triggers only is planned,
\* and one on which all three triggers fired is spontaneous.
C7_Witness ==
  /\ Returned
  /\ Len(result.ideas) = 2
  /\ LET a == result.ideas[1]
         b == result.ideas[2]
     IN  /\ Triggers[a.task_text] = [verb |-> TRUE, phrase |-> FALSE, future |-> TRUE]
         /\ a.origin_type = "planned"
         /\ Triggers[b.task_text] = [verb |-> TRUE, phrase |-> TRUE, future |-> TRUE]
         /\ b.origin_type = "spontaneous"

----------------------------------------------------------------------------
(* C8 *)

StatusByOrder ==
  [t \in AllTranscripts |->
     IF Mentions(t, {"already started", "in progress", "working on"})
     THEN "in progress"
     ELSE IF Mentions(t, {"finished", "completed", "done"}) THEN "completed"
     ELSE "new"]

----------------------------------------------------------------------------
(* C9 *)

DueDateByOrder ==
  [t \in AllTranscripts |->
     IF Mentions(t, {"tomorrow"}) THEN Str("tomorrow")
     ELSE IF Mentions(t, {"next week"}) THEN Str("next week")
     ELSE IF Mentions(t, {"this weekend"}) THEN Str("this weekend")
     ELSE JSNull]

\* C9: an idea's due_date is 'tomorrow', else 'next week', else
\* 'this weekend', by the first of the three phrases, in that order, that
\* the lower-cased transcript contains, wherever it stands, and null when
\* it contains none.
C9_DueDateFirstMatch ==
  Returned =>
    \A k \in 1..Len(result.ideas) :
      result.ideas[k].due_date = DueDateByOrder[result.ideas[k].task_text]

\* "next week" written before "tomorrow" still gives 'tomorrow'; "next week"
\* with "this weekend" gives 'next week'.
C9_Witness ==
  /\ Returned
  /\ \E k \in 1..Len(result.ideas) :
       /\ result.ideas[k].task_text = "Next week or tomorrow I will try"
       /\ result.ideas[k].due_date = Str("tomorrow")
  /\ \E k \in 1..Len(result.ideas) :
       /\ Mentions(result.ideas[k].task_text, {"next week"})
       /\ Mentions(result.ideas[k].task_text, {"this weekend"})
       /\ result.ideas[k].due_date = Str("next week")

----------------------------------------------------------------------------
(* C10 *)

----------------------------------------------------------------------------
(* C11 *)

\* Whether the lower-cased transcript has "thinking about", "considering".
Wording ==
  [t \in AllTranscripts |->
     [ thinkingAbout |-> Mentions(t, {"thinking about"}),
       considering   |-> Mentions(t, {"considering"}) ]]

\* The ideas pushed for the entries before index i.
IdeasBefore(i) == Len(FiringFrom(SubSeq(entries, 1, i - 1), 1))

\* C11: every entry whose lower-cased transcript contains "thinking about"
\* yields an idea, which is 'spontaneous' and 'detailed' or 'conceptual',
\* never 'initial'; and a 'planned' idea is 'conceptual' only if its
\* transcript contains "considering".
C11_ThinkingAboutCoupling ==
  Returned =>
    /\ Aligned
    /\ \A i \in 1..Len(entries) :
         Wording[entries[i].transcript_user].thinkingAbout =>
           /\ Fires(entries[i])
           /\ IdeasBefore(i) + 1 <= Len(result.ideas)
           /\ LET it == result.ideas[IdeasBefore(i) + 1]
              IN  /\ it.task_text = entries[i].transcript_user
                  /\ it.origin_type = "spontaneous"
                  /\ it.refinement_level \in {"detailed", "conceptual"}
    /\ \A k \in 1..Len(result.ideas) :
         (result.ideas[k].origin_type = "planned"
            /\ result.ideas[k].refinement_level = "conceptual")
           => Wording[result.ideas[k].task_text].considering

\* A "thinking about" idea that is spontaneous and conceptual beside a
\* planned idea that is conceptual by "considering".
C11_Witness ==
  /\ Returned
  /\ Len(result.ideas) = 2
  /\ LET a == result.ideas[1]
         b == result.ideas[2]
     IN  /\ Wording[a.task_text].thinkingAbout
         /\ a.origin_type = "spontaneous"
         /\ a.refinement_level = "conceptual"
         /\ ~Wording[b.task_text].thinkingAbout
         /\ Wording[b.task_text].considering
         /\ b.origin_type = "planned"
         /\ b.refinement_level = "conceptual"

====
